---------------------------- MODULE Spec2Model ----------------------------
(* lxc-top (src/src/lxc-top/main.go): a full-screen monitor that samples   *)
(* every container's cumulative CPU counter and memory use, derives a CPU  *)
(* percentage from two successive samples, and shows a sorted table.       *)
(*                                                                         *)
(* Go's uint64, int (64 bit), time.Duration and float64 do not fit TLC's   *)
(* 32-bit integers, so every 64-bit quantity is a little-endian sequence   *)
(* of 16-bit limbs and the arithmetic of main.go is spelled out on limbs,  *)
(* wrap-around included.  Strings are TLA+ strings.                        *)
EXTENDS Integers, Sequences, FiniteSets, TLC

-----------------------------------------------------------------------------
(* Multi-limb arithmetic: Go's fixed-width integers.                       *)

\* One limb holds 16 bits; a uint64 (Container.Cpu, Container.Mem) is 4 limbs.
LimbBase == 65536
LimbBits == 16
U64Limbs == 4

\* The n-limb number of a natural number k < 2^31.
BigOf(k, n) ==
    [i \in 1..n |-> IF i = 1 THEN k % LimbBase
                    ELSE IF i = 2 THEN k \div LimbBase ELSE 0]

\* a widened (or cut, modulo LimbBase^n) to n limbs.
BigFit(a, n) == [i \in 1..n |-> IF i <= Len(a) THEN a[i] ELSE 0]

BigIsZero(a) == \A i \in 1..Len(a) : a[i] = 0

\* F(v) with v evaluated once: TLC evaluates an operator's argument anew at
\* each use of the parameter, and a value bound by a set is evaluated once.
Bind(v, F(_)) == CHOOSE r \in {F(x) : x \in {v}} : TRUE

RECURSIVE BigAddFrom(_, _, _, _)
BigAddFrom(a, b, i, carry) ==
    IF i > Len(a) THEN <<>>
    ELSE LET s == a[i] + b[i] + carry
         IN  <<s % LimbBase>> \o BigAddFrom(a, b, i + 1, s \div LimbBase)

\* (a + b) mod LimbBase^Len(a)
BigAdd(a, b) == Bind(<<a, b>>, LAMBDA p : BigAddFrom(p[1], p[2], 1, 0))

RECURSIVE BigSubFrom(_, _, _, _)
BigSubFrom(a, b, i, borrow) ==
    IF i > Len(a) THEN <<>>
    ELSE LET d == a[i] - b[i] - borrow
         IN  IF d < 0 THEN <<d + LimbBase>> \o BigSubFrom(a, b, i + 1, 1)
                      ELSE <<d>> \o BigSubFrom(a, b, i + 1, 0)

\* (a - b) mod LimbBase^Len(a): Go's unsigned subtraction wraps around.
BigSub(a, b) == Bind(<<a, b>>, LAMBDA p : BigSubFrom(p[1], p[2], 1, 0))

RECURSIVE BigMulFrom(_, _, _, _)
BigMulFrom(a, k, i, carry) ==
    IF i > Len(a) THEN <<>>
    ELSE LET p == a[i] * k + carry
         IN  <<p % LimbBase>> \o BigMulFrom(a, k, i + 1, p \div LimbBase)

\* (a * k) mod LimbBase^Len(a), for a small factor 0 <= k < 2^15: Go's
\* unsigned multiplication wraps around.
BigMulSmall(a, k) == Bind(a, LAMBDA x : BigMulFrom(x, k, 1, 0))

\* (2 * a + bit) mod LimbBase^Len(a)
BigShl1(a, bit) == Bind(<<a, bit>>, LAMBDA p : BigMulFrom(p[1], 2, 1, p[2]))

RECURSIVE BigGeqFrom(_, _, _)
BigGeqFrom(a, b, i) ==
    IF i = 0 THEN TRUE
    ELSE IF a[i] # b[i] THEN a[i] > b[i]
    ELSE BigGeqFrom(a, b, i - 1)

\* a >= b and a > b as unsigned numbers of the same length
BigGeq(a, b) == Bind(<<a, b>>, LAMBDA p : BigGeqFrom(p[1], p[2], Len(p[1])))
BigGt(a, b) == Bind(<<a, b>>, LAMBDA p : p[1] # p[2] /\ BigGeq(p[1], p[2]))

RECURSIVE Pow2(_)
Pow2(e) == IF e = 0 THEN 1 ELSE 2 * Pow2(e - 1)

\* Bit j (0 = least significant) of a.
BigBit(a, j) == (a[(j \div LimbBits) + 1] \div Pow2(j % LimbBits)) % 2

\* One step of the long division of a by d, for bit j of a: r2 is the
\* remainder so far with that bit shifted in.
BigDivStep(st) ==
    Bind(BigShl1(st.r, BigBit(st.a, st.j)),
         LAMBDA r2 :
            [a |-> st.a, d |-> st.d, j |-> st.j - 1,
             q |-> BigShl1(st.q, IF BigGeq(r2, st.d) THEN 1 ELSE 0),
             r |-> IF BigGeq(r2, st.d) THEN BigSub(r2, st.d) ELSE r2])

\* Four steps, for the four bits from j down.
BigDivStep4(st) ==
    Bind(BigDivStep(st), LAMBDA s1 :
        Bind(BigDivStep(s1), LAMBDA s2 :
            Bind(BigDivStep(s2), LAMBDA s3 : BigDivStep(s3))))

\* Long division, from the top bit j of the dividend a down: q collects
\* the quotient, r the remainder (one limb wider than the operands, as
\* 2 * r + 1 can pass LimbBase^Len(a)).
BigDivBits[st \in [a : Seq(Nat), d : Seq(Nat), j : Int,
                   q : Seq(Nat), r : Seq(Nat)]] ==
    IF st.j < 0 THEN [quo |-> st.q, rem |-> BigFit(st.r, Len(st.a))]
    ELSE Bind(BigDivStep4(st), LAMBDA nx : BigDivBits[nx])

\* a / b and a % b for b # 0, both of Len(a) limbs: Go's unsigned division
\* truncates.
BigDivMod(a, b) ==
    Bind(<<a, b>>, LAMBDA p :
        BigDivBits[[a |-> p[1], d |-> BigFit(p[2], Len(p[1]) + 1),
                    j |-> Len(p[1]) * LimbBits - 1,
                    q |-> BigOf(0, Len(p[1])),
                    r |-> BigOf(0, Len(p[1]) + 1)]])

BigDiv(a, b) == BigDivMod(a, b).quo

\* Short division by a small divisor 0 < k < 2^15, from the top limb i down.
RECURSIVE BigDivSmallFrom(_, _, _, _)
BigDivSmallFrom(a, k, i, rem) ==
    IF i = 0 THEN [quo |-> <<>>, rem |-> rem]
    ELSE Bind(rem * LimbBase + a[i], LAMBDA cur :
            Bind(BigDivSmallFrom(a, k, i - 1, cur % k), LAMBDA rest :
                [quo |-> rest.quo \o <<cur \div k>>, rem |-> rest.rem]))

BigDivSmall(a, k) == Bind(a, LAMBDA x : BigDivSmallFrom(x, k, Len(x), 0))

\* The decimal digits of an unsigned number, as fmt's %d prints them.
BigToDecFrom[a \in Seq(Nat)] ==
    Bind(BigDivSmall(a, 10), LAMBDA dm :
        IF BigIsZero(dm.quo) THEN ToString(dm.rem)
        ELSE BigToDecFrom[dm.quo] \o ToString(dm.rem))

BigToDec(a) == BigToDecFrom[a]

\* uint64 values by name.
U64(k) == BigOf(k, U64Limbs)
U64Zero == U64(0)
U64Max == [i \in 1..U64Limbs |-> LimbBase - 1]

\* int(x) for a uint64 x keeps the 64 bits (int is 64 bits wide here); the
\* value is negative when the top bit is set.
IntIsNeg(a) == a[U64Limbs] >= LimbBase \div 2
IntLess(a, b) ==
    IF IntIsNeg(a) # IntIsNeg(b) THEN IntIsNeg(a) ELSE BigGt(b, a)
IntToDec(a) ==
    IF IntIsNeg(a) THEN "-" \o BigToDec(BigSub(U64Zero, a)) ELSE BigToDec(a)

-----------------------------------------------------------------------------
(* Constants and types of main.go.                                         *)

DELAY == 3
LXC_INFO_TIMEOUT == 10
VERSION == "1.0.1"

\* time.Second, in the nanoseconds time.Duration counts.
Second == BigMulSmall(U64(1000000), 1000)

\* Container; the zero value is what a Go map returns for a missing key.
\* LastCheckTime is the monotonic clock reading of time.Now(), in
\* nanoseconds; CpuPct holds the 64 bits of a Go int.
NewContainer(name, mem) ==
    [Name |-> name, LastCheckTime |-> U64Zero, Cpu |-> U64Zero,
     CpuPct |-> U64Zero, Mem |-> mem]

ZeroContainer == NewContainer("", U64Zero)

\* ByCpu.Less with the comparison turned round: an ascending sort.
ByCpuLessAscending(x, y) == IntLess(x.CpuPct, y.CpuPct)

\* ByCpu.Less and ByMem.Less on two elements: x sorts before y.
ByCpuLess(x, y) == IntLess(y.CpuPct, x.CpuPct)
ByMemLess(x, y) == BigGt(x.Mem, y.Mem)

-----------------------------------------------------------------------------
(* Container.MemPretty                                                     *)

GiB == 1073741824
MiB == 1048576
KiB == 1024

\* The position of the top set bit of a, counted from 1 (0 for a = 0).
BigBitLen(a) ==
    Bind({j \in 0..(Len(a) * LimbBits - 1) : BigBit(a, j) = 1}, LAMBDA S :
        IF S = {} THEN 0 ELSE 1 + CHOOSE j \in S : \A k \in S : k <= j)

\* The n-limb number 2^e.
BigPow2(e, n) ==
    [i \in 1..n |-> IF i = (e \div LimbBits) + 1
                    THEN Pow2(e % LimbBits) ELSE 0]

\* Rounding a / 2^e to the nearest integer, ties to the even one: what
\* both the uint64-to-float64 conversion and fmt's %.2f do.
BigRoundShift(a, e) ==
    IF e = 0 THEN a
    ELSE Bind(BigDivMod(a, BigPow2(e, Len(a))), LAMBDA dm :
            LET half == BigPow2(e - 1, Len(dm.quo))
                up == \/ BigGt(dm.rem, half)
                      \/ dm.rem = half /\ dm.quo[1] % 2 = 1
            IN  IF up THEN BigAdd(dm.quo, BigOf(1, Len(dm.quo))) ELSE dm.quo)

\* float64(c.Mem): a float64 keeps 53 significant bits, so a larger
\* value is rounded to the nearest multiple of 2^(bits - 53).  The result
\* (at most 2^64) is given in 5 limbs.
Float64Of(m) ==
    Bind(BigFit(m, U64Limbs + 1), LAMBDA w :
        Bind(BigBitLen(w), LAMBDA bits :
            IF bits <= 53 THEN w
            ELSE BigMulSmall(BigRoundShift(w, bits - 53), Pow2(bits - 53))))

\* The hundredths that %0.2f prints for float64(mem) / 2^e: the division
\* by a power of two is exact, and fmt rounds the exact value to two
\* decimals, ties to even.
Hundredths(mem, e) == BigRoundShift(BigMulSmall(Float64Of(mem), 100), e)

\* fmt.Sprintf("%0.2f", v) for v given in hundredths.
Sprintf2f(h) ==
    Bind(BigDivSmall(h, 100), LAMBDA dm :
        BigToDec(dm.quo) \o "." \o (IF dm.rem < 10 THEN "0" ELSE "")
            \o ToString(dm.rem))

\* MemPretty with thresholds that are not strict.
MemPrettyFromThreshold(c) ==
    IF BigGeq(c.Mem, U64(GiB)) THEN Sprintf2f(Hundredths(c.Mem, 30)) \o " GB"
    ELSE IF BigGeq(c.Mem, U64(MiB)) THEN Sprintf2f(Hundredths(c.Mem, 20)) \o " MB"
    ELSE IF BigGeq(c.Mem, U64(KiB)) THEN Sprintf2f(Hundredths(c.Mem, 10)) \o " KB"
    ELSE BigToDec(c.Mem) \o " B"

MemPretty(c) ==
    IF BigGt(c.Mem, U64(GiB)) THEN Sprintf2f(Hundredths(c.Mem, 30)) \o " GB"
    ELSE IF BigGt(c.Mem, U64(MiB)) THEN Sprintf2f(Hundredths(c.Mem, 20)) \o " MB"
    ELSE IF BigGt(c.Mem, U64(KiB)) THEN Sprintf2f(Hundredths(c.Mem, 10)) \o " KB"
    ELSE BigToDec(c.Mem) \o " B"

-----------------------------------------------------------------------------
(* lxcList: the output of lxc-ls, split into trimmed lines.  The output    *)
(* is held as the sequence of its code points, so that it can contain any  *)
(* character; the names lxcList returns are strings.                       *)

Char(s, i) == SubSeq(s, i, i)

\* The characters names and listings are written with here, each with its
\* code point.
Alphabet ==
    {<<"a", 97>>, <<"b", 98>>, <<" ", 32>>, <<"\t", 9>>, <<"\n", 10>>,
     <<"\f", 12>>, <<"\r", 13>>}

\* The code points of a string.
Runes(s) ==
    [i \in 1..Len(s) |-> (CHOOSE e \in Alphabet : e[1] = Char(s, i))[2]]

\* string(out): the string with the given code points.
RECURSIVE StringOf(_)
StringOf(rs) ==
    IF rs = <<>> THEN ""
    ELSE (CHOOSE e \in Alphabet : e[2] = Head(rs))[1] \o StringOf(Tail(rs))

\* unicode.IsSpace, which strings.TrimSpace goes by: \t, \n, \v, \f, \r,
\* the blank, U+0085, U+00A0, U+1680, U+2000 to U+200A, U+2028, U+2029,
\* U+202F, U+205F and U+3000.
IsSpace(r) ==
    r \in (9..13) \cup {32, 133, 160, 5760} \cup (8192..8202)
             \cup {8232, 8233, 8239, 8287, 12288}

\* strings.Split(s, "\n"): cur is the piece being collected at position i.
SplitFrom[st \in [s : Seq(Nat), i : Nat, cur : Seq(Nat)]] ==
    IF st.i > Len(st.s) THEN <<st.cur>>
    ELSE IF st.s[st.i] = 10
         THEN <<st.cur>> \o SplitFrom[[s |-> st.s, i |-> st.i + 1, cur |-> <<>>]]
         ELSE Bind([s |-> st.s, i |-> st.i + 1,
                    cur |-> Append(st.cur, st.s[st.i])],
                   LAMBDA nx : SplitFrom[nx])

Split(s) == SplitFrom[[s |-> s, i |-> 1, cur |-> <<>>]]

\* strings.TrimSpace
TrimSpace(s) ==
    Bind({i \in 1..Len(s) : ~IsSpace(s[i])}, LAMBDA keep :
        IF keep = {} THEN <<>>
        ELSE SubSeq(s, CHOOSE i \in keep : \A k \in keep : i <= k,
                       CHOOSE j \in keep : \A k \in keep : k <= j))

\* The names lxcList returns for output out (main.go:203-207).
lxcListNames(out) ==
    Bind(Split(out), LAMBDA ret :
        [i \in 1..Len(ret) |-> StringOf(TrimSpace(ret[i]))])

-----------------------------------------------------------------------------
(* lxcInfo: the rate computation (main.go:239-245).                        *)

\* c.LastCheckTime.Sub(old.LastCheckTime) converted by uint64(dur): the
\* difference of the two monotonic readings, modulo 2^64.
DurOf(c, old) == BigSub(c.LastCheckTime, old.LastCheckTime)

\* int(elapsed_cpu * 100 / uint64(dur)), for dur # 0: the subtraction and
\* the multiplication wrap around at 64 bits, the division truncates, and
\* the conversion to int keeps the bits.
CpuPctOf(c, old) ==
    BigDiv(BigMulSmall(BigSub(c.Cpu, old.Cpu), 100), DurOf(c, old))

\* lxcInfo without the test for a previous entry.
HasPreviousAlways(old) == TRUE

\* Whether the lookup found a previous entry: the test old.Name != "".
HasPrevious(old) == old.Name # ""

\* The division panics (integer divide by zero) when the readings are equal.
DividesByZero(c, old) == HasPrevious(old) /\ BigIsZero(DurOf(c, old))

\* The snapshot lxcInfo stores for new sample c, given the lookup result.
Snapshot(c, old) ==
    IF HasPrevious(old) THEN [c EXCEPT !.CpuPct = CpuPctOf(c, old)] ELSE c

\* containers.Containers[container]: the zero Container for a missing key.
Lookup(m, key) == IF key \in DOMAIN m THEN m[key] ELSE ZeroContainer

\* An assignment that leaves the map with the new entry alone.
MapSetAlone(m, key, c) == [k \in {key} |-> c]

\* containers.Containers[container] = c
MapSet(m, key, c) ==
    [k \in DOMAIN m \cup {key} |-> IF k = key THEN c ELSE m[k]]

-----------------------------------------------------------------------------
(* sortAndDisplay: ordering and rows (main.go:149-191).                    *)

\* Every order in which ranging over the map can append its values.
Orders(m) ==
    LET n == Cardinality(DOMAIN m)
    IN  {[i \in 1..n |-> m[ks[i]]] :
            ks \in {f \in [1..n -> DOMAIN m] :
                        \A i, j \in 1..n : i # j => f[i] # f[j]}}

IsSorted(seq, memsort) ==
    \A i, j \in 1..Len(seq) :
        i < j => IF memsort THEN ~ByMemLess(seq[j], seq[i])
                            ELSE ~ByCpuLess(seq[j], seq[i])

\* sort.Sort is not stable and the map is ranged over in any order, so the
\* sorted slice is any arrangement of the values that Less leaves in order.
SortedSlices(m, memsort) == {seq \in Orders(m) : IsSorted(seq, memsort)}

\* The header line of the table.
HeaderLine(memsort) ==
    "lxc-top v" \o VERSION
        \o ": 'q' to exit, 's' to toggle memory/cpu sort ["
        \o (IF memsort THEN "MEM" ELSE "CPU") \o "]"

\* The data rows drawn for the sorted slice on a terminal of the given
\* height: row i of the slice goes to screen line i + 3, and the loop
\* breaks at the first line that is not below the height.
RECURSIVE RowsFrom(_, _, _)
RowsFrom(sorted, i, height) ==
    LET pos == i + 3
    IN  IF i >= Len(sorted) \/ pos >= height THEN <<>>
        ELSE <<[pos |-> pos,
                name |-> sorted[i + 1].Name,
                cpu |-> IntToDec(sorted[i + 1].CpuPct),
                mem |-> MemPretty(sorted[i + 1])]>>
                 \o RowsFrom(sorted, i + 1, height)

\* The loop breaking one line late: if pos > height.
DataRowsLate(sorted, height) == RowsFrom(sorted, 0, height + 1)

DataRows(sorted, height) == RowsFrom(sorted, 0, height)

-----------------------------------------------------------------------------
(* Bounds of the model and the inputs the environment offers.              *)

\* Terminal events (keys, resizes, errors) the user and terminal produce.
MaxEvents == 2
\* Cycles in which lxc-info reports running containers; in later cycles
\* every container is reported stopped (or the fetch fails), so the store
\* and the clock, which then is no longer read, stay as they are.
MaxCycles == 2

\* What lxc-ls can answer: an error, or its combined output.
LsResults ==
    {[err |-> TRUE, out |-> <<>>], [err |-> FALSE, out |-> <<>>]}
        \cup {[err |-> FALSE, out |-> Runes(o)] : o \in {"a\n b \n", "a\na\n"}}

\* Cumulative CPU counters (nanoseconds) and memory sizes (bytes) that
\* lxc-info can report together.
Usages ==
    {[cpu |-> BigMulSmall(U64(1000000), 50), mem |-> U64(5242880)],
     [cpu |-> BigMulSmall(U64(1000000), 2000), mem |-> U64(50)]}

\* What one run of lxc-info can give: the deadline passed, the command
\* failed, or an output in which each of the two patterns matches (the
\* captured number, parsed) or does not (<<>>).
FetchResults ==
    {[deadline |-> TRUE, err |-> TRUE, cpu |-> <<>>, mem |-> <<>>],
     [deadline |-> FALSE, err |-> TRUE, cpu |-> <<>>, mem |-> <<>>]}
        \cup {[deadline |-> FALSE, err |-> FALSE, cpu |-> <<>>, mem |-> mm] :
                 mm \in {<<>>} \cup {<<u.mem>> : u \in Usages}}
        \cup {[deadline |-> FALSE, err |-> FALSE, cpu |-> <<u.cpu>>, mem |-> <<>>] :
                 u \in Usages}
        \cup {[deadline |-> FALSE, err |-> FALSE, cpu |-> <<u.cpu>>, mem |-> <<u.mem>>] :
                 u \in Usages}

\* Time an lxc-ls run takes, and time that can pass between two readings
\* of the clock by fetches of one cycle (two fetches may read the same
\* nanosecond).
ListStep == U64(1000000)
FetchSteps == {U64Zero, U64(1000000)}

\* Terminal heights termbox.Size() can report.
Heights == {24}

\* Events termbox.PollEvent can deliver: the keys q, s and another key, a
\* resize, an input error and an interrupt.
EventKinds == {"q", "s", "x", "resize", "error", "interrupt"}

-----------------------------------------------------------------------------
(* State.                                                                  *)

VARIABLES
    mainPc,      \* where main is
    evPc,        \* where processEvents is
    evMemsort,   \* processEvents' memsort
    loopPc,      \* where mainLoop is
    memsort,     \* mainLoop's memsort
    msg,         \* the message of the Fatal call main or mainLoop is in
    tasks,       \* the goroutines lxcGetAll started in this cycle
    store,       \* containers.Containers
    lock,        \* containers.Mutex: 0 when free, else the holding task
    now,         \* the monotonic clock
    cycles,      \* cycles started by mainLoop, counted up to MaxCycles + 1
    pending,     \* terminal events not yet polled
    nEvents,     \* terminal events produced so far
    sorts,       \* sort modes handed to mainLoop so far
    IsInit,      \* termbox.IsInit
    closes,      \* calls of termbox.Close so far
    stdout,      \* lines printed
    containers,  \* sortAndDisplay's sorted slice
    screen,      \* what the last sortAndDisplay drew
    alive,       \* the process has not exited
    exitCode     \* its exit status once it has

vars == <<mainPc, evPc, evMemsort, loopPc, memsort, msg, tasks, store, lock,
          now, cycles, pending, nEvents, sorts, IsInit, closes, stdout,
          containers, screen, alive, exitCode>>

mainVars == <<mainPc>>
evVars == <<evPc, evMemsort, pending, nEvents>>
loopVars == <<loopPc, memsort, cycles, sorts>>
taskVars == <<tasks, store, lock, now>>
termVars == <<IsInit, closes, stdout>>
drawVars == <<containers, screen>>
exitVars == <<alive, exitCode>>

NoScreen == [header |-> "", titles |-> <<>>, height |-> 0, rows |-> <<>>]

Init ==
    /\ mainPc = "start"
    /\ evPc = "idle"
    /\ evMemsort = FALSE
    /\ loopPc = "idle"
    /\ memsort = FALSE
    /\ msg = [p \in {"main", "loop"} |-> ""]
    /\ tasks = <<>>
    /\ store = <<>>
    /\ lock = 0
    /\ now = U64Zero
    /\ cycles = 0
    /\ pending = <<>>
    /\ nEvents = 0
    /\ sorts = 0
    /\ IsInit = FALSE
    /\ closes = 0
    /\ stdout = <<>>
    /\ containers = <<>>
    /\ screen = NoScreen
    /\ alive = TRUE
    /\ exitCode = 0

-----------------------------------------------------------------------------
(* Fatal (main.go:249-256), step by step, for a caller that is at `at`     *)
(* and moves on by Goto.                                                   *)

FatalStep(at, text, Goto(_)) ==
    \/ /\ at = "fatalTest"
       /\ Goto(IF IsInit THEN "fatalClose" ELSE "fatalPrint")
       /\ UNCHANGED <<IsInit, closes, stdout, alive, exitCode>>
    \/ /\ at = "fatalClose"
       /\ IsInit' = FALSE
       /\ closes' = closes + 1
       /\ Goto("fatalPrint")
       /\ UNCHANGED <<stdout, alive, exitCode>>
    \/ /\ at = "fatalPrint"
       /\ stdout' = Append(stdout, text)
       /\ Goto("fatalExit")
       /\ UNCHANGED <<IsInit, closes, alive, exitCode>>
    \/ /\ at = "fatalExit"
       /\ alive' = FALSE
       /\ exitCode' = 1
       /\ Goto("exited")
       /\ UNCHANGED termVars

\* A run-time panic nobody recovers ends the process with status 2.
Panic == alive' = FALSE /\ exitCode' = 2

\* lxcList's two fatal conditions and its message for each.
LsFails(r) == r.err \/ r.out = <<>>
LsMessage(r) ==
    IF r.err THEN "Unable to execute lxc-list"
    ELSE "lxc-info produced no output. Either no containers are running or you forgot to 'sudo lxc-top'"

-----------------------------------------------------------------------------
(* main (main.go:78-91)                                                    *)

\* fmt.Printf and the first lxcList, whose names are not used.
MainList(answers) ==
    /\ alive /\ mainPc = "start"
    /\ \E r \in answers :
         /\ msg' = [msg EXCEPT !["main"] = IF LsFails(r) THEN LsMessage(r) ELSE ""]
         /\ mainPc' = IF LsFails(r) THEN "fatalTest" ELSE "init"
    /\ stdout' = Append(stdout, "lxc-top initializing...")
    /\ UNCHANGED <<evVars, loopVars, taskVars, IsInit, closes, drawVars,
                   exitVars>>

MainGoto(v) == mainPc' = v

MainFatal ==
    /\ alive
    /\ FatalStep(mainPc, msg["main"], MainGoto)
    /\ UNCHANGED <<evVars, loopVars, msg, taskVars, drawVars>>

\* termbox.Init succeeds; the two goroutines are started and main waits
\* on quitChan.
MainInit ==
    /\ alive /\ mainPc = "init"
    /\ IsInit' = TRUE
    /\ evPc' = "poll"
    /\ loopPc' = "lxcList"
    /\ mainPc' = "recv"
    /\ UNCHANGED <<evMemsort, pending, nEvents, memsort, cycles, sorts, msg,
                   taskVars, closes, stdout, drawVars, exitVars>>

\* termbox.Init fails: panic(err) runs the deferred termbox.Close and ends
\* the process.
MainInitFails ==
    /\ alive /\ mainPc = "init"
    /\ closes' = closes + 1
    /\ mainPc' = "exited"
    /\ Panic
    /\ UNCHANGED <<evVars, loopVars, msg, taskVars, IsInit, stdout, drawVars>>

\* <-quitChan meets processEvents' quitChan <- true.
QuitHandoff ==
    /\ alive /\ mainPc = "recv" /\ evPc = "sendQuit"
    /\ mainPc' = "close"
    /\ evPc' = "poll"
    /\ UNCHANGED <<evMemsort, pending, nEvents, loopVars, msg, taskVars,
                   termVars, drawVars, exitVars>>

\* the deferred termbox.Close
MainClose ==
    /\ alive /\ mainPc = "close"
    /\ IsInit' = FALSE
    /\ closes' = closes + 1
    /\ mainPc' = "return"
    /\ UNCHANGED <<evVars, loopVars, msg, taskVars, stdout, drawVars, exitVars>>

\* main returns: the process exits with status 0.
MainReturn ==
    /\ alive /\ mainPc = "return"
    /\ mainPc' = "exited"
    /\ alive' = FALSE
    /\ exitCode' = 0
    /\ UNCHANGED <<evVars, loopVars, msg, taskVars, termVars, drawVars>>

-----------------------------------------------------------------------------
(* The terminal, and processEvents (main.go:109-128)                       *)

\* The user or the terminal produces an event.
TermEvent(kinds) ==
    /\ alive /\ evPc # "idle" /\ nEvents < MaxEvents
    /\ \E e \in kinds : pending' = Append(pending, e)
    /\ nEvents' = nEvents + 1
    /\ UNCHANGED <<mainVars, evPc, evMemsort, loopVars, msg, taskVars,
                   termVars, drawVars, exitVars>>

Polls == alive /\ evPc = "poll" /\ pending # <<>>

\* processEvents without the send on quitChan.
EvQuitDropped ==
    /\ alive /\ evPc = "poll" /\ pending # <<>>
    /\ Head(pending) \in {"q", "interrupt"}
    /\ pending' = Tail(pending)
    /\ UNCHANGED <<mainVars, evPc, evMemsort, nEvents, loopVars, msg,
                   taskVars, termVars, drawVars, exitVars>>

\* PollEvent returns the key q, or an interrupt: quitChan <- true.
EvQuit ==
    /\ Polls /\ Head(pending) \in {"q", "interrupt"}
    /\ pending' = Tail(pending)
    /\ evPc' = "sendQuit"
    /\ UNCHANGED <<mainVars, evMemsort, nEvents, loopVars, msg, taskVars,
                   termVars, drawVars, exitVars>>

\* PollEvent returns the key s: memsort = !memsort; sortChan <- memsort.
EvSort ==
    /\ Polls /\ Head(pending) = "s"
    /\ pending' = Tail(pending)
    /\ evMemsort' = ~evMemsort
    /\ evPc' = "sendSort"
    /\ UNCHANGED <<mainVars, nEvents, loopVars, msg, taskVars, termVars,
                   drawVars, exitVars>>

\* Another key, or an event the switch has no case for.
EvIgnored ==
    /\ Polls /\ Head(pending) \in {"x", "resize"}
    /\ pending' = Tail(pending)
    /\ UNCHANGED <<mainVars, evPc, evMemsort, nEvents, loopVars, msg,
                   taskVars, termVars, drawVars, exitVars>>

\* EventError: panic(ev.Err).
EvError ==
    /\ Polls /\ Head(pending) = "error"
    /\ pending' = Tail(pending)
    /\ Panic
    /\ UNCHANGED <<mainVars, evPc, evMemsort, nEvents, loopVars, msg,
                   taskVars, termVars, drawVars>>

-----------------------------------------------------------------------------
(* mainLoop (main.go:95-106), lxcGetAll (132-145), sortAndDisplay          *)

\* The clock moved on by d; once the cycles in which it is read are over
\* it is left alone.
Advance(d) == IF cycles < MaxCycles THEN BigAdd(now, d) ELSE now

NewTask(name) ==
    [name |-> name, pc |-> "go", c |-> ZeroContainer, old |-> ZeroContainer,
     stopped |-> FALSE, msg |-> ""]

\* wg.Done has been called for goroutine i: it has returned, or it has
\* panicked and run its deferred calls.
Counted(i) == tasks[i].pc \in {"done", "panicExit"}

\* The goroutines that have panicked and run their deferred calls, and for
\* which the run-time system has yet to end the process.
Panicking == SelectSeq(tasks, LAMBDA t : t.pc = "panicExit")

\* lxcGetAll: lxcList, then one goroutine per name.
GetAll(answers) ==
    /\ alive /\ loopPc = "lxcList"
    /\ \E r \in answers :
         /\ msg' = [msg EXCEPT !["loop"] = IF LsFails(r) THEN LsMessage(r) ELSE ""]
         /\ IF LsFails(r)
            THEN loopPc' = "fatalTest" /\ tasks' = Panicking
            ELSE /\ loopPc' = "wait"
                 /\ tasks' = [i \in 1..Len(lxcListNames(r.out)) |->
                                 NewTask(lxcListNames(r.out)[i])] \o Panicking
    /\ now' = Advance(ListStep)
    /\ UNCHANGED <<mainVars, evVars, memsort, sorts, store, lock, termVars,
                   drawVars, exitVars>>

\* One of the first MaxCycles cycles starts.
LoopList(answers) ==
    /\ cycles < MaxCycles
    /\ GetAll(answers)
    /\ cycles' = cycles + 1

\* A later cycle starts: lxc-info then reports no running container (see
\* Now below), so the store stays as it is.
LoopRelist(answers) ==
    /\ cycles >= MaxCycles
    /\ GetAll(answers)
    /\ cycles' = MaxCycles + 1

LoopGoto(v) == loopPc' = v

LoopFatal ==
    /\ alive
    /\ FatalStep(loopPc, msg["loop"], LoopGoto)
    /\ UNCHANGED <<mainVars, evVars, memsort, cycles, sorts, msg, taskVars,
                   drawVars>>

\* lxcGetAll returning as soon as one goroutine has called wg.Done.
LoopJoinAny ==
    /\ alive /\ loopPc = "wait"
    /\ \E i \in 1..Len(tasks) : tasks[i].pc = "done"
    /\ loopPc' = "display"
    /\ UNCHANGED <<mainVars, evVars, memsort, cycles, sorts, msg, taskVars,
                   termVars, drawVars, exitVars>>

\* wg.Wait returns once every goroutine has called wg.Done.
LoopJoin ==
    /\ alive /\ loopPc = "wait"
    /\ \A i \in 1..Len(tasks) : Counted(i)
    /\ loopPc' = "display"
    /\ UNCHANGED <<mainVars, evVars, memsort, cycles, sorts, msg, taskVars,
                   termVars, drawVars, exitVars>>

\* sortAndDisplay on a terminal of height h.
Draw(h) ==
    \E sorted \in SortedSlices(store, memsort) :
        /\ containers' = sorted
        /\ screen' = [header |-> HeaderLine(memsort),
                      titles |-> <<"NAME", "CPU %", "MEM">>,
                      height |-> h,
                      rows |-> DataRows(sorted, h)]

LoopDisplay(heights) ==
    /\ alive /\ loopPc = "display"
    /\ \E h \in heights : Draw(h)
    /\ loopPc' = "select"
    /\ UNCHANGED <<mainVars, evVars, memsort, cycles, sorts, msg, taskVars,
                   termVars, exitVars>>

\* The select taking the value from sortChan and dropping it.
SortHandoffDrops ==
    /\ alive /\ loopPc = "select" /\ evPc = "sendSort"
    /\ sorts' = sorts + 1
    /\ loopPc' = "lxcList"
    /\ evPc' = "poll"
    /\ UNCHANGED <<mainVars, evMemsort, pending, nEvents, memsort, cycles,
                   msg, taskVars, termVars, drawVars, exitVars>>

\* select: memsort = <-sortChan meets processEvents' sortChan <- memsort.
SortHandoff ==
    /\ alive /\ loopPc = "select" /\ evPc = "sendSort"
    /\ memsort' = evMemsort
    /\ sorts' = sorts + 1
    /\ loopPc' = "lxcList"
    /\ evPc' = "poll"
    /\ UNCHANGED <<mainVars, evMemsort, pending, nEvents, cycles, msg,
                   taskVars, termVars, drawVars, exitVars>>

\* The timeout case of the select putting the sort mode back to CPU.
LoopTimeoutResets ==
    /\ alive /\ loopPc = "select"
    /\ now' = (IF cycles < MaxCycles THEN BigAdd(now, BigMulSmall(Second, DELAY))
               ELSE now)
    /\ memsort' = FALSE
    /\ loopPc' = "lxcList"
    /\ UNCHANGED <<mainVars, evVars, cycles, sorts, msg, tasks,
                   store, lock, termVars, drawVars, exitVars>>

\* select: <-time.After(DELAY * time.Second)
LoopTimeout ==
    /\ alive /\ loopPc = "select"
    /\ now' = Advance(BigMulSmall(Second, DELAY))
    /\ loopPc' = "lxcList"
    /\ UNCHANGED <<mainVars, evVars, memsort, cycles, sorts, msg, tasks,
                   store, lock, termVars, drawVars, exitVars>>

-----------------------------------------------------------------------------
(* The goroutine of lxcGetAll and lxcInfo (main.go:137-142, 211-246)       *)

At(i, where) == alive /\ i \in 1..Len(tasks) /\ tasks[i].pc = where

TaskFrame == UNCHANGED <<mainVars, evVars, loopVars, msg, drawVars>>

\* if name != "" fails: the goroutine only calls wg.Done.
TaskBlank(i) ==
    /\ At(i, "go") /\ tasks[i].name = ""
    /\ tasks' = [tasks EXCEPT ![i].pc = "done"]
    /\ UNCHANGED <<store, lock, now, termVars, exitVars>>
    /\ TaskFrame

\* The results lxc-info can give in the current cycle.
Now(results) ==
    IF cycles <= MaxCycles THEN results
    ELSE {r \in results : r.cpu = <<>> \/ r.mem = <<>>}

\* The goroutine without the test of its name.
FetchesAlways(i) == At(i, "go")

\* if name != "" holds: the goroutine calls lxcInfo.
Fetches(i) == At(i, "go") /\ tasks[i].name # ""

\* ctx.Err() == context.DeadlineExceeded
TaskTimeout(i, results) ==
    /\ Fetches(i)
    /\ \E r \in Now(results) : r.deadline
    /\ tasks' = [tasks EXCEPT
                   ![i].pc = "fatalTest",
                   ![i].msg = "Timed out getting lxc-info for container "
                                  \o tasks[i].name]
    /\ UNCHANGED <<store, lock, now, termVars, exitVars>>
    /\ TaskFrame

\* err != nil
TaskFails(i, results) ==
    /\ Fetches(i)
    /\ \E r \in Now(results) : ~r.deadline /\ r.err
    /\ tasks' = [tasks EXCEPT
                   ![i].pc = "fatalTest",
                   ![i].msg = "Unable to get lxc-info for " \o tasks[i].name]
    /\ UNCHANGED <<store, lock, now, termVars, exitVars>>
    /\ TaskFrame

\* lxcInfo storing an empty snapshot for a container without a CPU line.
TaskStoppedStores(i, results) ==
    /\ alive /\ i \in 1..Len(tasks) /\ tasks[i].pc = "go" /\ tasks[i].name # ""
    /\ \E r \in results : ~r.err /\ r.cpu = <<>>
    /\ tasks' = [tasks EXCEPT ![i].pc = "done", ![i].stopped = TRUE]
    /\ store' = [k \in DOMAIN store \cup {tasks[i].name} |->
                    IF k = tasks[i].name
                    THEN [Name |-> k, LastCheckTime |-> now, Cpu |-> U64Zero,
                          CpuPct |-> U64Zero, Mem |-> U64Zero]
                    ELSE store[k]]
    /\ UNCHANGED <<lock, now, termVars, exitVars>>
    /\ UNCHANGED <<mainVars, evVars, loopVars, msg, drawVars>>

\* The CPU pattern does not match: the container is taken to be stopped.
TaskStopped(i, results) ==
    /\ Fetches(i)
    /\ \E r \in Now(results) : ~r.err /\ r.cpu = <<>>
    /\ tasks' = [tasks EXCEPT ![i].pc = "done", ![i].stopped = TRUE]
    /\ UNCHANGED <<store, lock, now, termVars, exitVars>>
    /\ TaskFrame

\* The CPU pattern matches and the memory pattern does not.
TaskNoMem(i, results) ==
    /\ Fetches(i)
    /\ \E r \in Now(results) : ~r.err /\ r.cpu # <<>> /\ r.mem = <<>>
    /\ tasks' = [tasks EXCEPT
                   ![i].pc = "fatalTest",
                   ![i].msg = "Unable to find mem use  in output:"]
    /\ UNCHANGED <<store, lock, now, termVars, exitVars>>
    /\ TaskFrame

\* The sample lxcInfo builds from a full output read at time t.
Sample(name, r, t) ==
    [NewContainer(name, r.mem[1]) EXCEPT !.LastCheckTime = t, !.Cpu = r.cpu[1]]

\* Both patterns match: c is built and stamped with time.Now().
TaskSample(i, results, steps) ==
    /\ Fetches(i)
    /\ \E r \in Now(results), d \in steps :
         /\ ~r.err /\ r.cpu # <<>> /\ r.mem # <<>>
         /\ now' = BigAdd(now, d)
         /\ tasks' = [tasks EXCEPT ![i].pc = "lock",
                                   ![i].c = Sample(tasks[i].name, r, now')]
    /\ UNCHANGED <<store, lock, termVars, exitVars>>
    /\ TaskFrame

\* containers.Lock() that does not wait for the lock to be free.
TaskLockBarges(i) ==
    /\ alive /\ i \in 1..Len(tasks) /\ tasks[i].pc = "lock"
    /\ lock' = i
    /\ tasks' = [tasks EXCEPT ![i].pc = "lookup"]
    /\ UNCHANGED <<store, now, termVars, exitVars>>
    /\ UNCHANGED <<mainVars, evVars, loopVars, msg, drawVars>>

\* containers.Lock()
TaskLock(i) ==
    /\ At(i, "lock") /\ lock = 0
    /\ lock' = i
    /\ tasks' = [tasks EXCEPT ![i].pc = "lookup"]
    /\ UNCHANGED <<store, now, termVars, exitVars>>
    /\ TaskFrame

\* old := containers.Containers[container]
TaskLookup(i) ==
    /\ At(i, "lookup")
    /\ tasks' = [tasks EXCEPT ![i].pc = "store",
                              ![i].old = Lookup(store, tasks[i].name)]
    /\ UNCHANGED <<store, lock, now, termVars, exitVars>>
    /\ TaskFrame

\* The rate computation and containers.Containers[container] = c.
TaskStore(i) ==
    /\ At(i, "store") /\ ~DividesByZero(tasks[i].c, tasks[i].old)
    /\ tasks' = [tasks EXCEPT ![i].pc = "unlock",
                              ![i].c = Snapshot(tasks[i].c, tasks[i].old)]
    /\ store' = MapSet(store, tasks[i].name, tasks'[i].c)
    /\ UNCHANGED <<lock, now, termVars, exitVars>>
    /\ TaskFrame

\* The division by a zero duration panics: the goroutine unwinds, and its
\* deferred containers.Unlock() runs.
TaskPanics(i) ==
    /\ At(i, "store") /\ DividesByZero(tasks[i].c, tasks[i].old)
    /\ tasks' = [tasks EXCEPT ![i].pc = "panicDone"]
    /\ lock' = 0
    /\ UNCHANGED <<store, now, termVars, exitVars>>
    /\ TaskFrame

\* The deferred wg.Done() of the panicking goroutine.
TaskPanicDone(i) ==
    /\ At(i, "panicDone")
    /\ tasks' = [tasks EXCEPT ![i].pc = "panicExit"]
    /\ UNCHANGED <<store, lock, now, termVars, exitVars>>
    /\ TaskFrame

\* Nothing recovers the panic: the run-time system ends the process.
TaskPanicExit(i) ==
    /\ At(i, "panicExit")
    /\ tasks' = [tasks EXCEPT ![i].pc = "exited"]
    /\ Panic
    /\ UNCHANGED <<store, lock, now, termVars>>
    /\ TaskFrame

\* The deferred containers.Unlock() of a goroutine that returns.
TaskUnlock(i) ==
    /\ At(i, "unlock")
    /\ lock' = 0
    /\ tasks' = [tasks EXCEPT ![i].pc = "wgDone", ![i].old = ZeroContainer]
    /\ UNCHANGED <<store, now, termVars, exitVars>>
    /\ TaskFrame

\* Its deferred wg.Done().
TaskDone(i) ==
    /\ At(i, "wgDone")
    /\ tasks' = [tasks EXCEPT ![i].pc = "done"]
    /\ UNCHANGED <<store, lock, now, termVars, exitVars>>
    /\ TaskFrame

TaskFatal(i) ==
    /\ alive /\ i \in 1..Len(tasks)
    /\ FatalStep(tasks[i].pc, tasks[i].msg,
                 LAMBDA v : tasks' = [tasks EXCEPT ![i].pc = v])
    /\ UNCHANGED <<store, lock, now>>
    /\ TaskFrame

\* The steps of the goroutines, for the given answers of lxc-info.
TaskNext(results, steps) ==
    \E i \in DOMAIN tasks :
        \/ TaskBlank(i) \/ TaskTimeout(i, results) \/ TaskFails(i, results)
        \/ TaskStopped(i, results) \/ TaskNoMem(i, results)
        \/ TaskSample(i, results, steps)
        \/ TaskLock(i) \/ TaskLookup(i) \/ TaskStore(i) \/ TaskUnlock(i)
        \/ TaskDone(i)
        \/ TaskPanics(i) \/ TaskPanicDone(i) \/ TaskPanicExit(i)
        \/ TaskFatal(i)

\* The program with a terminal nobody touches: main, mainLoop and the
\* fetches of every cycle.
Next ==
    \/ MainList(LsResults) \/ MainFatal \/ MainInit \/ MainInitFails
    \/ LoopList(LsResults) \/ LoopFatal \/ LoopJoin \/ LoopDisplay(Heights)
    \/ LoopTimeout
    \/ TaskNext(FetchResults, FetchSteps)

Spec == Init /\ [][Next]_vars

-----------------------------------------------------------------------------
(* The program at the keyboard: one container, every kind of terminal      *)
(* event, and cycles without end.                                          *)

KeyLsResults ==
    {[err |-> TRUE, out |-> <<>>], [err |-> FALSE, out |-> Runes("a\n")]}

KeyFetchResults ==
    {r \in FetchResults :
        /\ r.cpu # <<>> => r.cpu = <<BigMulSmall(U64(1000000), 50)>>
        /\ r.cpu = <<>> => r.mem = <<>>}

KeyFetchSteps == {U64(1000000)}

\* What main does.
MainNext ==
    \/ MainList(KeyLsResults) \/ MainFatal \/ MainInit \/ MainInitFails
    \/ QuitHandoff \/ MainClose \/ MainReturn

\* What processEvents does.
EvNext == EvQuit \/ EvSort \/ EvIgnored \/ EvError

\* What mainLoop and the goroutines of lxcGetAll do.
LoopNext ==
    \/ LoopList(KeyLsResults) \/ LoopRelist(KeyLsResults) \/ LoopFatal
    \/ LoopJoin \/ LoopDisplay(Heights) \/ SortHandoff \/ LoopTimeout
    \/ \E i \in DOMAIN tasks :
          \/ TaskBlank(i) \/ TaskTimeout(i, KeyFetchResults)
          \/ TaskFails(i, KeyFetchResults) \/ TaskStopped(i, KeyFetchResults)
          \/ TaskNoMem(i, KeyFetchResults)
          \/ TaskSample(i, KeyFetchResults, KeyFetchSteps)
          \/ TaskLock(i) \/ TaskLookup(i) \/ TaskStore(i) \/ TaskUnlock(i)
          \/ TaskDone(i) \/ TaskFatal(i)

KeyNext == TermEvent(EventKinds) \/ MainNext \/ EvNext \/ LoopNext

KeySpec == Init /\ [][KeyNext]_vars

\* The Go scheduler lets every goroutine that can run do so, and a select
\* whose channel already has a sender waiting takes that case: the
\* hand-off of a sort mode cannot lose against the timer for ever.  Nothing
\* obliges the user to press a key.
FairSpec ==
    /\ KeySpec
    /\ WF_vars(MainNext) /\ WF_vars(EvNext) /\ WF_vars(LoopNext)
    /\ SF_vars(SortHandoff)

-----------------------------------------------------------------------------
(* The rate computation on the whole range of the counter: one container,  *)
(* sampled in every cycle, whose counter lxc-info can report anywhere in   *)
(* 64 bits.                                                                *)

RateLsResults == {[err |-> FALSE, out |-> Runes("a\n")]}

RateCpus ==
    {U64Zero, BigMulSmall(U64(1000000), 4000), BigPow2(63, U64Limbs), U64Max}

RateFetchResults ==
    {[deadline |-> FALSE, err |-> FALSE, cpu |-> <<v>>, mem |-> <<U64(2048)>>] :
        v \in RateCpus}

RateFetchSteps == {U64(1), U64(1000000)}

RateNext ==
    \/ MainList(RateLsResults) \/ MainInit
    \/ LoopList(RateLsResults) \/ LoopJoin \/ LoopDisplay(Heights)
    \/ LoopTimeout
    \/ \E i \in DOMAIN tasks :
          \/ TaskBlank(i) \/ TaskSample(i, RateFetchResults, RateFetchSteps)
          \/ TaskLock(i) \/ TaskLookup(i) \/ TaskStore(i) \/ TaskUnlock(i)
          \/ TaskDone(i)

RateSpec == Init /\ [][RateNext]_vars

-----------------------------------------------------------------------------
(* sortAndDisplay on stores of up to three containers, in both sort modes  *)
(* and on terminals of several heights.                                    *)

RenderHeights == {0, 3, 4, 5, 24}

\* A snapshot with the given percentage and memory, as a second cycle
\* leaves it in the store.
Stored(name, pct, mem) ==
    [Name |-> name, LastCheckTime |-> BigMulSmall(Second, DELAY),
     Cpu |-> U64Zero, CpuPct |-> pct, Mem |-> mem]

\* The snapshots each of the three containers can have.
RenderChoices ==
    [A |-> {Stored("A", U64(50), U64(100)), Stored("A", U64(50), U64(999)),
            Stored("A", BigSub(U64Zero, U64(3)), U64(KiB)),
            Stored("A", U64Zero, U64(GiB))},
     B |-> {Stored("B", U64(80), U64(50)), Stored("B", U64(50), U64(2048)),
            Stored("B", U64(80), U64(KiB + 1)),
            Stored("B", U64(7), BigMulSmall(U64(GiB), 3))},
     C |-> {Stored("C", U64(50), U64(MiB)), Stored("C", U64(80), U64(MiB + 1)),
            Stored("C", U64Zero, BigMulSmall(U64(MiB), 5)),
            Stored("C", U64(GiB), U64(GiB + 1)),
            Stored("C", U64(1), U64Max)}]

RenderStores ==
    UNION {{st \in [ns -> UNION {RenderChoices[n] : n \in ns}] :
               \A n \in ns : st[n] \in RenderChoices[n]} :
           ns \in SUBSET {"A", "B", "C"}}

\* The goroutines of the cycle, all returned.
Returned(st) ==
    LET names == SelectSeq(<<"A", "B", "C">>, LAMBDA n : n \in DOMAIN st)
    IN  [i \in 1..Len(names) |->
            [NewTask(names[i]) EXCEPT !.pc = "done", !.c = st[names[i]]]]

\* mainLoop is about to call sortAndDisplay in its second cycle; the sort
\* mode is the one the listener has handed over, if it has.
RenderInit ==
    /\ mainPc = "recv"
    /\ evPc = "poll"
    /\ memsort \in BOOLEAN
    /\ evMemsort = memsort
    /\ sorts = (IF memsort THEN 1 ELSE 0)
    /\ nEvents = sorts
    /\ pending = <<>>
    /\ loopPc = "display"
    /\ msg = [p \in {"main", "loop"} |-> ""]
    /\ store \in RenderStores
    /\ tasks = Returned(store)
    /\ lock = 0
    /\ now = BigMulSmall(Second, DELAY)
    /\ cycles = MaxCycles
    /\ IsInit = TRUE
    /\ closes = 0
    /\ stdout = <<"lxc-top initializing...">>
    /\ containers = <<>>
    /\ screen = NoScreen
    /\ alive = TRUE
    /\ exitCode = 0

RenderNext == LoopDisplay(RenderHeights) \/ LoopTimeout

RenderSpec == RenderInit /\ [][RenderNext]_vars

-----------------------------------------------------------------------------
(* The goroutines at the lock: two fetches of a cycle, for two names or    *)
(* for the same one, each of which samples its container, finds it         *)
(* stopped, fails, times out or finds no memory line; the scheduler lets   *)
(* every goroutine that can run do so, and a mutex that is released is     *)
(* handed to a goroutine waiting for it.                                   *)

LockLsResults ==
    {[err |-> FALSE, out |-> Runes(o)] : o \in {"a\n b \n", "a\na\n"}}

LockFetchResults ==
    {r \in FetchResults :
        /\ r.cpu # <<>> => r.cpu = <<BigMulSmall(U64(1000000), 50)>>
        /\ r.mem # <<>> => r.mem = <<U64(5242880)>>
        /\ r.cpu = <<>> => r.mem = <<>>}

LockNext ==
    \/ MainList(LockLsResults) \/ MainInit
    \/ LoopList(LockLsResults) \/ LoopJoin \/ LoopDisplay(Heights)
    \/ LoopTimeout
    \/ TaskNext(LockFetchResults, FetchSteps)

LockSpec == Init /\ [][LockNext]_vars

FairLockSpec == LockSpec /\ WF_vars(LockNext)

-----------------------------------------------------------------------------
(* The ways out: two containers whose fetches succeed or fail in the same  *)
(* cycle, and a user who can ask to quit at any moment.                    *)

ExitLsResults == {[err |-> FALSE, out |-> Runes("a\nb\n")]}

ExitFetchResults ==
    {r \in FetchResults :
        /\ ~r.deadline
        /\ r.cpu # <<>> => r.cpu = <<BigMulSmall(U64(1000000), 50)>>
        /\ r.cpu # <<>> => r.mem = <<U64(5242880)>>
        /\ r.cpu = <<>> => r.mem = <<>> /\ r.err}

ExitNext ==
    \/ TermEvent({"q"}) \/ EvQuit
    \/ MainList(ExitLsResults) \/ MainInit
    \/ QuitHandoff \/ MainClose \/ MainReturn
    \/ LoopList(ExitLsResults) \/ LoopJoin \/ LoopDisplay(Heights)
    \/ LoopTimeout
    \/ \E i \in DOMAIN tasks :
          \/ TaskBlank(i) \/ TaskFails(i, ExitFetchResults)
          \/ TaskSample(i, ExitFetchResults, KeyFetchSteps)
          \/ TaskLock(i) \/ TaskLookup(i) \/ TaskStore(i) \/ TaskUnlock(i)
          \/ TaskDone(i) \/ TaskFatal(i)

ExitSpec == Init /\ [][ExitNext]_vars

-----------------------------------------------------------------------------
(* Listings with blank lines: empty lines, lines of white space (a       *)
(* no-break space, an Ogham space mark, an em space, a line separator, a   *)
(* next-line character among them) and names with white space before or    *)
(* after them (a tab, a form feed, a carriage return, an ideographic       *)
(* space); every container listed is sampled or found stopped.             *)

BlankLsResults ==
    {[err |-> FALSE, out |-> o] :
        o \in {Runes("a\f\n ") \o <<160, 10, 10>>,
               Runes("\t\nb\r\n a"),
               <<5760, 10, 8195>> \o Runes("a") \o <<12288, 10, 8232, 133, 11>>}}

BlankFetchResults ==
    {r \in FetchResults :
        /\ ~r.err
        /\ r.cpu # <<>> => r.mem # <<>>
        /\ r.cpu = <<>> => r.mem = <<>>}

BlankFetchSteps == {U64(1000000)}

BlankNext ==
    \/ MainList(BlankLsResults) \/ MainInit
    \/ LoopList(BlankLsResults) \/ LoopJoin \/ LoopDisplay(Heights)
    \/ LoopTimeout
    \/ \E i \in DOMAIN tasks :
          \/ TaskBlank(i) \/ TaskStopped(i, BlankFetchResults)
          \/ TaskSample(i, BlankFetchResults, BlankFetchSteps)
          \/ TaskLock(i) \/ TaskLookup(i) \/ TaskStore(i) \/ TaskUnlock(i)
          \/ TaskDone(i)

BlankSpec == Init /\ [][BlankNext]_vars

-----------------------------------------------------------------------------
(* Containers that stop: two names, or one name listed twice, each fetch   *)
(* of which samples its container or finds no CPU line, drawn on           *)
(* terminals with room for no row, for one row and for every row.          *)

StoppedLsResults ==
    {[err |-> FALSE, out |-> Runes(o)] : o \in {"a\n b \n", "a\na\n"}}

StoppedFetchResults ==
    {r \in FetchResults : ~r.err /\ (r.cpu # <<>> => r.mem # <<>>)}

StoppedHeights == {3, 4, 24}

StoppedNext ==
    \/ MainList(StoppedLsResults) \/ MainInit
    \/ LoopList(StoppedLsResults) \/ LoopJoin \/ LoopDisplay(StoppedHeights)
    \/ LoopTimeout
    \/ \E i \in DOMAIN tasks :
          \/ TaskBlank(i) \/ TaskStopped(i, StoppedFetchResults)
          \/ TaskSample(i, StoppedFetchResults, BlankFetchSteps)
          \/ TaskLock(i) \/ TaskLookup(i) \/ TaskStore(i) \/ TaskUnlock(i)
          \/ TaskDone(i)

StoppedSpec == Init /\ [][StoppedNext]_vars

-----------------------------------------------------------------------------
(* The properties.                                                         *)

\* Exact arithmetic on two limbs more than a uint64 has, where nothing the
\* properties compute wraps around.
Wide(a) == BigFit(a, U64Limbs + 2)

\* floor((c2 - c1) * 100 / (t2 - t1)) for c2 >= c1 and t2 > t1.
ExactRate(old, new) ==
    BigDiv(BigMulSmall(Wide(BigSub(new.Cpu, old.Cpu)), 100),
           Wide(BigSub(new.LastCheckTime, old.LastCheckTime)))

\* C1: whenever a sample replaces the entry of its identity, with a counter
\* c2 >= c1 and a time t2 > t1, the CpuPct written is
\* floor((c2 - c1) * 100 / (t2 - t1)).
C1_RateIsFloor ==
    [][\A n \in DOMAIN store :
          (/\ n \in DOMAIN store'
           /\ store'[n] # store[n]
           /\ BigGeq(store'[n].Cpu, store[n].Cpu)
           /\ BigGt(store'[n].LastCheckTime, store[n].LastCheckTime))
          => /\ ~IntIsNeg(store'[n].CpuPct)
             /\ Wide(store'[n].CpuPct) = ExactRate(store[n], store'[n])]_vars

\* C2: whenever a sample replaces the entry of its identity with a lower
\* counter, the CpuPct written is 0.
C2_RegressionGivesZero ==
    [][\A n \in DOMAIN store :
          (/\ n \in DOMAIN store'
           /\ store'[n] # store[n]
           /\ BigGt(store[n].Cpu, store'[n].Cpu))
          => store'[n].CpuPct = U64Zero]_vars

\* C3: an entry that appears in the store for an identity that had none
\* has CpuPct = 0, in every cycle and whatever the other fetches do.
C3_FirstObservationZero ==
    [][\A n \in DOMAIN store' :
          n \notin DOMAIN store => store'[n].CpuPct = U64Zero]_vars

\* A fetch of the second cycle has just stored the first snapshot of its
\* container.
C3_Witness ==
    /\ cycles = 2
    /\ \E i \in DOMAIN tasks :
          /\ tasks[i].pc = "unlock"
          /\ tasks[i].old.Name = ""
          /\ tasks[i].name \in DOMAIN store
          /\ store[tasks[i].name].CpuPct = U64Zero
          /\ store[tasks[i].name].Cpu # U64Zero

\* The names of the snapshots in a slice.
Names(seq) == {seq[k].Name : k \in 1..Len(seq)}

\* Fetch i found no CPU line, and so did every fetch of the same name in
\* this cycle.
StoppedNow(i) ==
    /\ tasks[i].stopped
    /\ \A j \in DOMAIN tasks : tasks[j].name = tasks[i].name => tasks[j].stopped

\* C4 as claimed: a container whose fetch output lacks the CPU line is not
\* among the snapshots the render of that cycle displays, and its fetch
\* ends without a fatal termination.
C4_StoppedAbsent ==
    loopPc = "select" =>
        \A i \in DOMAIN tasks :
            StoppedNow(i) => /\ tasks[i].pc = "done"
                             /\ \A k \in 1..Len(screen.rows) :
                                    screen.rows[k].name # tasks[i].name

\* C4, amended: a fetch whose output lacks the CPU line ends without a
\* fatal termination and leaves the store as it is; an entry is added or
\* replaced only by a fetch of its name that found the line, so that a
\* container all of whose fetches of the cycle lacked it keeps the entry
\* of an earlier cycle, if it has one.  The render of the cycle shows the
\* store: the container of such a fetch is in the sorted slice exactly
\* when the store holds an entry for it, and then with that entry; its
\* row is drawn exactly when its position i in the slice has
\* i + 3 < height; a container without an entry has no row.
C4_StoppedLeavesStore ==
    /\ [][\A i \in DOMAIN tasks :
             (i \in DOMAIN tasks' /\ ~tasks[i].stopped /\ tasks'[i].stopped)
             => (store' = store /\ alive' /\ tasks'[i].pc = "done")]_vars
    /\ [][\A n \in DOMAIN store' :
             (n \notin DOMAIN store \/ store'[n] # store[n])
             => \E i \in DOMAIN tasks :
                    /\ tasks[i].name = n /\ tasks[i].pc = "store"
                    /\ ~tasks[i].stopped
                    /\ store'[n] = tasks'[i].c]_vars
    /\ [](loopPc = "select" =>
             \A i \in DOMAIN tasks :
                 tasks[i].stopped =>
                     /\ tasks[i].name \in Names(containers)
                            <=> tasks[i].name \in DOMAIN store
                     /\ \A k \in 1..Len(containers) :
                            containers[k].Name = tasks[i].name
                            => /\ containers[k] = store[tasks[i].name]
                               /\ (k - 1) + 3 < screen.height
                                      <=> /\ k <= Len(screen.rows)
                                          /\ screen.rows[k].name = tasks[i].name
                     /\ \A k \in 1..Len(screen.rows) :
                            screen.rows[k].name = tasks[i].name
                            => /\ k <= Len(containers)
                               /\ containers[k].Name = tasks[i].name)

\* On a terminal with room for one row, the second cycle has found a
\* container stopped: the store still holds the two entries of the first
\* cycle, and the only row drawn is that of the stopped container.
C4_Witness ==
    /\ loopPc = "select" /\ cycles = 2
    /\ screen.height = 4 /\ Len(containers) = 2 /\ Len(screen.rows) = 1
    /\ \E i \in DOMAIN tasks :
          /\ StoppedNow(i)
          /\ tasks[i].name \in DOMAIN store
          /\ screen.rows[1].name = tasks[i].name
          /\ containers[1] = store[tasks[i].name]

\* C5: after the join of lxcGetAll, every container that one fetch of the
\* cycle sampled has a store entry with the name, counter, memory and time
\* of that fetch.
C5_JoinedStoreComplete ==
    loopPc \in {"display", "select"} =>
        \A i \in DOMAIN tasks :
            (/\ tasks[i].name # ""
             /\ ~tasks[i].stopped
             /\ \A j \in DOMAIN tasks : j # i => tasks[j].name # tasks[i].name)
            => /\ tasks[i].name \in DOMAIN store
               /\ store[tasks[i].name].Name = tasks[i].name
               /\ store[tasks[i].name].Cpu = tasks[i].c.Cpu
               /\ store[tasks[i].name].Mem = tasks[i].c.Mem
               /\ store[tasks[i].name].LastCheckTime = tasks[i].c.LastCheckTime

\* Two fetches of the second cycle, for a and for b, have both stored
\* their sample and lxcGetAll has returned.
C5_Witness ==
    /\ loopPc = "display" /\ cycles = 2
    /\ DOMAIN store = {"a", "b"}
    /\ \E i, j \in DOMAIN tasks :
          /\ tasks[i].name = "a" /\ tasks[j].name = "b"
          /\ ~tasks[i].stopped /\ ~tasks[j].stopped
          /\ tasks[i].c.Cpu # tasks[j].c.Cpu
          /\ store["a"].LastCheckTime = tasks[i].c.LastCheckTime
          /\ store["a"].CpuPct # U64Zero

\* The store of the example: A with cpu 50 and mem 100, B with cpu 80 and
\* mem 50.
ExampleStore ==
    [n \in {"A", "B"} |-> IF n = "A" THEN Stored("A", U64(50), U64(100))
                                     ELSE Stored("B", U64(80), U64(50))]

\* C6: the rows drawn are the first elements of an arrangement of all the
\* store's values in which CpuPct (in CPU mode) or Mem (in memory mode)
\* never increases; the example gives B, A in CPU mode and A, B in memory
\* mode.
C6_RowsSortedPrefix ==
    loopPc = "select" =>
        /\ Len(containers) = Cardinality(DOMAIN store)
        /\ \A n \in DOMAIN store :
              \E k \in 1..Len(containers) : containers[k] = store[n]
        /\ \A i, j \in 1..Len(containers) :
              i < j => IF memsort
                       THEN BigGeq(containers[i].Mem, containers[j].Mem)
                       ELSE ~IntLess(containers[i].CpuPct, containers[j].CpuPct)
        /\ Len(screen.rows) <= Len(containers)
        /\ \A k \in 1..Len(screen.rows) :
              screen.rows[k].name = containers[k].Name
        /\ (store = ExampleStore /\ screen.height = 24) =>
              [k \in 1..Len(screen.rows) |-> screen.rows[k].name]
                  = (IF memsort THEN <<"A", "B">> ELSE <<"B", "A">>)

\* Three containers drawn in CPU mode, one of them with a negative
\* percentage, which comes last.
C6_Witness ==
    /\ loopPc = "select" /\ ~memsort
    /\ Len(screen.rows) = 3
    /\ IntIsNeg(containers[3].CpuPct)
    /\ BigGt(containers[1].CpuPct, containers[2].CpuPct)
    /\ screen.rows[1].name # "A"

Min(a, b) == IF a < b THEN a ELSE b
Max(a, b) == IF a > b THEN a ELSE b

\* C7: for N snapshots and a terminal of height H, min(N, max(0, H - 3))
\* rows are drawn, on lines 3, 4, ... for the first elements of the sorted
\* slice, none on a line >= H, and the program goes on.
C7_RowsTruncated ==
    loopPc = "select" =>
        /\ Len(screen.rows)
              = Min(Cardinality(DOMAIN store), Max(0, screen.height - 3))
        /\ \A k \in 1..Len(screen.rows) :
              /\ screen.rows[k].pos = k + 2
              /\ screen.rows[k].pos < screen.height
              /\ screen.rows[k].name = containers[k].Name
        /\ alive /\ exitCode = 0

\* Three containers on a terminal of five lines: two rows are drawn.
C7_Witness ==
    /\ loopPc = "select"
    /\ Cardinality(DOMAIN store) = 3
    /\ screen.height = 5
    /\ Len(screen.rows) = 2
    /\ screen.rows[2].pos = 4

\* Reading back what MemPretty printed.
IsDigit(ch) == \E d \in 0..9 : ToString(d) = ch
DigitOf(ch) == CHOOSE d \in 0..9 : ToString(d) = ch

\* The number a string of digits (a decimal point skipped) denotes.
RECURSIVE DecFrom(_, _, _)
DecFrom(s, i, acc) ==
    IF i > Len(s) THEN acc
    ELSE IF Char(s, i) = "." THEN DecFrom(s, i + 1, acc)
    ELSE Bind(BigAdd(BigMulSmall(acc, 10), BigOf(DigitOf(Char(s, i)), Len(acc))),
              LAMBDA x : DecFrom(s, i + 1, x))

DecValue(s) == DecFrom(s, 1, Wide(U64Zero))

AllDigits(s) == Len(s) > 0 /\ \A i \in 1..Len(s) : IsDigit(Char(s, i))

\* Digits, a point, two digits.
TwoDecimals(s) ==
    /\ Len(s) >= 4
    /\ Char(s, Len(s) - 2) = "."
    /\ AllDigits(SubSeq(s, 1, Len(s) - 3))
    /\ AllDigits(SubSeq(s, Len(s) - 1, Len(s)))

\* The unit the thresholds give: 0 for B, 1 for KB, 2 for MB, 3 for GB.
UnitFor(m) ==
    IF BigGt(m, U64(GiB)) THEN 3
    ELSE IF BigGt(m, U64(MiB)) THEN 2
    ELSE IF BigGt(m, U64(KiB)) THEN 1
    ELSE 0

RECURSIVE Times1024(_, _)
Times1024(a, unit) ==
    IF unit = 0 THEN a ELSE Times1024(BigMulSmall(a, KiB), unit - 1)

\* h hundredths of the unit are the hundredths nearest to m bytes.
NearestHundredth(h, m, unit) ==
    LET shown == Times1024(h, unit)
        exact == BigMulSmall(Wide(m), 100)
        diff == IF BigGeq(shown, exact) THEN BigSub(shown, exact)
                ELSE BigSub(exact, shown)
    IN  BigGeq(Times1024(Wide(U64(1)), unit), BigMulSmall(diff, 2))

\* String s shows m bytes as the claim has it.
ShowsMem(s, m) ==
    LET suffix == <<" B", " KB", " MB", " GB">>[UnitFor(m) + 1]
        number == SubSeq(s, 1, Len(s) - Len(suffix))
    IN  /\ Len(s) > Len(suffix)
        /\ SubSeq(s, Len(s) - Len(suffix) + 1, Len(s)) = suffix
        /\ IF UnitFor(m) = 0
           THEN AllDigits(number) /\ DecValue(number) = Wide(m)
           ELSE /\ TwoDecimals(number)
                /\ NearestHundredth(DecValue(number), m, UnitFor(m))

\* The examples of the claim, and the three thresholds themselves.
MemExamples ==
    {<<U64(999), "999 B">>, <<U64(2048), "2.00 KB">>,
     <<BigMulSmall(U64(MiB), 5), "5.00 MB">>,
     <<BigMulSmall(U64(GiB), 3), "3.00 GB">>,
     <<U64(KiB), "1024 B">>, <<U64(MiB), "1024.00 KB">>,
     <<U64(GiB), "1024.00 MB">>}

\* C8: the memory column of every row drawn has the unit the strict
\* thresholds give (a value equal to a threshold takes the smaller unit)
\* and, before it, Mem itself for B and else Mem divided by the unit to
\* two decimals; 999, 2048, 5 * 1024^2 and 3 * 1024^3 are shown as
\* "999 B", "2.00 KB", "5.00 MB" and "3.00 GB".
C8_MemPrettyUnits ==
    loopPc = "select" =>
        \A k \in 1..Len(screen.rows) :
            /\ ShowsMem(screen.rows[k].mem, containers[k].Mem)
            /\ \A ex \in MemExamples :
                  containers[k].Mem = ex[1] => screen.rows[k].mem = ex[2]

\* A table whose rows show a value equal to the KB threshold in bytes and
\* one above the GB threshold in GB.
C8_Witness ==
    /\ loopPc = "select"
    /\ \E k \in 1..Len(screen.rows) :
          containers[k].Mem = U64(KiB) /\ screen.rows[k].mem = "1024 B"
    /\ \E k \in 1..Len(screen.rows) :
          /\ containers[k].Mem = BigMulSmall(U64(GiB), 3)
          /\ screen.rows[k].mem = "3.00 GB"

\* A q key press or an interrupt has occurred and is not yet polled.
QuitSeen == \E k \in 1..Len(pending) : pending[k] \in {"q", "interrupt"}

\* C9 as claimed: whenever a q key press or an interrupt occurs, the
\* program eventually terminates with exit status 0.
C9_QuitExitsZero == QuitSeen ~> (~alive /\ exitCode = 0)

\* C9, amended: whenever a q key press or an interrupt occurs, the process
\* eventually ends; when it ends with status 0, main has returned and the
\* terminal was released before.  (A fatal condition or a panic can end
\* it first, with status 1 or 2.)
C9_QuitTerminates ==
    QuitSeen ~> (/\ ~alive
                 /\ exitCode = 0 => (mainPc = "exited" /\ ~IsInit /\ closes >= 1))

\* The process has ended with status 0 after a sort mode was handed over
\* and a quit event followed.
C9_Witness ==
    /\ ~alive /\ exitCode = 0
    /\ mainPc = "exited" /\ ~IsInit /\ closes = 1
    /\ sorts = 1 /\ nEvents = 2

\* C10: the sort mode of mainLoop is CPU at first and, after k hand-offs,
\* memory when k is odd and CPU when k is even, which is the mode the
\* listener sent last; a table drawn shows the mode of the last hand-off.
C10_SortModeParity ==
    /\ memsort = (sorts % 2 = 1)
    /\ memsort = (IF evPc = "sendSort" THEN ~evMemsort ELSE evMemsort)
    /\ loopPc = "select" => screen.header = HeaderLine(sorts % 2 = 1)

\* After one hand-off a table has been drawn in memory mode.
C10_Witness ==
    /\ sorts = 1 /\ memsort
    /\ loopPc = "select"
    /\ screen.header = HeaderLine(TRUE)
    /\ store # <<>>

\* processEvents takes an error event off the terminal.
ErrorEventPolled ==
    Polls /\ Head(pending) = "error" /\ pending' = Tail(pending)

\* C11: when a fatal condition ends the process (a call of Fatal made for
\* a failed or empty listing or a failed, timed-out or malformed fetch,
\* or an error event of the terminal), the terminal has been released if
\* it was initialised, a message has been printed after the greeting, and
\* the exit status is 1.
C11_FatalReleasesPrintsExits ==
    [][(alive /\ ~alive' /\ (exitCode' = 1 \/ ErrorEventPolled))
          => /\ exitCode' = 1
             /\ ~IsInit'
             /\ Len(stdout') >= 2]_vars

\* C12: while the process runs and mainLoop is at or in sortAndDisplay, or
\* past it and waiting, every goroutine lxcGetAll started has returned
\* from lxcInfo (after its store, or as stopped) and none holds the lock; the
\* store is written only while lxcGetAll waits for its goroutines, so the
\* writes of a cycle come before the read of that cycle and of the next.
C12_RenderAfterJoin ==
    /\ []((alive /\ loopPc \in {"display", "select"}) =>
             /\ \A i \in DOMAIN tasks : tasks[i].pc = "done"
             /\ lock = 0)
    /\ [][(store' # store \/ containers' # containers)
             => IF store' # store
                THEN loopPc = "wait" /\ loopPc' = "wait"
                     /\ containers' = containers
                ELSE loopPc = "display"
                     /\ \A i \in DOMAIN tasks : tasks[i].pc = "done"]_vars

\* Fetch i timed out, failed, or gave a CPU line without a memory line.
Faulted(i) == tasks[i].msg # ""

AnyFault == \E i \in DOMAIN tasks : Faulted(i)

\* C13: once a fetch of a cycle has timed out, failed or found
\* no memory line, mainLoop gets no further than the join of that cycle
\* and the process, when it has ended, has ended with status 1.
C13_FaultExitsOne ==
    AnyFault => /\ loopPc = "wait"
                /\ ~alive => exitCode = 1

\* The listener has taken an s key, toggled its mode to m and is handing
\* it to mainLoop.
ToggleSent(m) == alive /\ evPc = "sendSort" /\ evMemsort = m

\* mainLoop has taken mode m and has drawn a table in it.
ToggleShown(m) ==
    /\ loopPc = "select" /\ memsort = m
    /\ screen.header = HeaderLine(m)

\* The listener waits with its toggle until mainLoop is in its select, the
\* select applies it at once, without the clock moving, and starts a new
\* cycle; the select ends in no other way than this or by the timer, which
\* leaves the mode alone.
HandoffInSelect ==
    [][/\ (evPc = "sendSort" /\ evPc' # "sendSort")
            => /\ loopPc = "select" /\ loopPc' = "lxcList"
               /\ memsort' = evMemsort /\ sorts' = sorts + 1
               /\ now' = now
       /\ (loopPc = "select" /\ loopPc' # "select")
            => /\ loopPc' = "lxcList"
               /\ \/ evPc = "sendSort" /\ evPc' = "poll"
                  \/ evPc' = evPc /\ memsort' = memsort /\ sorts' = sorts]_vars

\* C14 as claimed: every s key the listener takes is eventually followed
\* by a table drawn in the toggled mode, the hand-off being made in
\* mainLoop's select as described.
C14_ToggleRendered ==
    /\ HandoffInSelect
    /\ ToggleSent(TRUE) ~> ToggleShown(TRUE)
    /\ ToggleSent(FALSE) ~> ToggleShown(FALSE)

\* C14, amended: every s key the listener takes is eventually followed by
\* a table drawn in the toggled mode unless the process ends first, and a
\* pending s key is eventually taken unless the process ends first; the
\* hand-off is made in mainLoop's select as described.
C14_ToggleRenderedOrExit ==
    /\ HandoffInSelect
    /\ ToggleSent(TRUE) ~> (ToggleShown(TRUE) \/ ~alive)
    /\ ToggleSent(FALSE) ~> (ToggleShown(FALSE) \/ ~alive)
    /\ (\E k \in 1..Len(pending) : pending[k] = "s")
          ~> (evPc = "sendSort" \/ ~alive)

\* Two s keys have been taken one after the other and the table is drawn
\* in CPU mode again, in a third cycle.
C14_Witness ==
    /\ alive /\ sorts = 2 /\ nEvents = 2
    /\ ToggleShown(FALSE)
    /\ cycles = MaxCycles + 1

\* C15: sortAndDisplay copies the store's values while it holds the
\* store's lock: in the step in which it reads the store the lock is held,
\* and not by a goroutine of lxcGetAll.
C15_RenderHoldsLock ==
    [][(loopPc = "display" /\ loopPc' = "select")
          => (lock # 0 /\ lock \notin DOMAIN tasks)]_vars

\* Fetch i is between Lock and Unlock.
InCritical(i) == tasks[i].pc \in {"lookup", "store", "unlock"}

\* C16: the lock is held exactly by the one goroutine that is between
\* Lock and Unlock; between a goroutine's lookup and its replacement of
\* the entry the store is not written, so the entry it replaces is the one
\* it looked up; a goroutine that has returned or panicked has released
\* the lock, which is free whenever lxcGetAll has returned; and a
\* goroutine waiting for the lock gets it, as long as the process lives.
C16_OneCriticalSection ==
    /\ [](/\ \A i \in DOMAIN tasks : InCritical(i) <=> lock = i
          /\ lock # 0 => lock \in DOMAIN tasks
          /\ \A i \in DOMAIN tasks :
                tasks[i].pc = "store"
                => tasks[i].old = Lookup(store, tasks[i].name)
          /\ loopPc # "wait" => lock = 0)
    /\ [][store' # store
             => \E i \in DOMAIN tasks :
                   /\ lock = i /\ tasks[i].pc = "store"
                   /\ tasks[i].old = Lookup(store, tasks[i].name)
                   /\ store' = MapSet(store, tasks[i].name, tasks'[i].c)]_vars
    /\ \A i \in 1..3 :
          (i \in DOMAIN tasks /\ tasks[i].pc = "lock")
             ~> (~alive \/ (i \in DOMAIN tasks /\ tasks[i].pc # "lock"))

\* A goroutine has looked its container up and is about to replace the
\* entry an earlier cycle left, while another goroutine, fetching the same
\* name, waits for the lock.
C16_Witness ==
    \E i, j \in DOMAIN tasks :
        /\ i # j /\ tasks[i].name = tasks[j].name
        /\ tasks[i].pc = "store" /\ lock = i
        /\ tasks[i].old.Name # ""
        /\ tasks[j].pc = "lock"

\* C17: no step removes a key from the store; an entry changes only when a
\* goroutine fetching that name stores its sample, and otherwise stays as
\* it is, also in cycles that do not list the name or find it stopped;
\* and the slice a render draws from holds every entry of the store.
C17_StoreOnlyGrows ==
    /\ [][/\ DOMAIN store \subseteq DOMAIN store'
          /\ \A n \in DOMAIN store' :
                (n \notin DOMAIN store \/ store'[n] # store[n])
                => \E i \in DOMAIN tasks :
                      /\ tasks[i].name = n /\ tasks[i].pc = "store"
                      /\ store'[n] = tasks'[i].c
                      /\ store'[n].Name = n]_vars
    /\ [](loopPc = "select" =>
             /\ Names(containers) = DOMAIN store
             /\ \A k \in 1..Len(containers) :
                   containers[k] = store[containers[k].Name])

\* The second cycle, which no longer lists b, has drawn its table, and b's
\* entry of the first cycle is in it.
C17_Witness ==
    /\ loopPc = "select" /\ cycles = 2
    /\ DOMAIN store = {"a", "b"}
    /\ \A i \in DOMAIN tasks : tasks[i].name # "b"
    /\ \E i \in DOMAIN tasks : tasks[i].name = "a" /\ tasks[i].c = store["a"]
    /\ \E k \in 1..Len(containers) :
          /\ containers[k].Name = "b"
          /\ BigGt(store["a"].LastCheckTime, containers[k].LastCheckTime)

\* C18: whenever a goroutine replaces the entry of its container (or
\* computes the rate for doing so), the time of its sample is later than
\* the time of the entry it found, so that the elapsed time it divides by
\* is positive.
C18_TimestampsIncrease ==
    [][\A i \in DOMAIN tasks :
          (/\ tasks[i].pc = "store"
           /\ i \in DOMAIN tasks' /\ tasks'[i].pc # "store"
           /\ HasPrevious(tasks[i].old))
          => BigGt(tasks[i].c.LastCheckTime, tasks[i].old.LastCheckTime)]_vars

\* A goroutine at pc is in Fatal's sequence of release, print and exit.
InFatal(pc) == pc \in {"fatalTest", "fatalClose", "fatalPrint", "fatalExit"}

\* The goroutines of lxcGetAll, mainLoop included, that are in Fatal.
FatalRunners ==
    Cardinality({i \in DOMAIN tasks : InFatal(tasks[i].pc)})
        + (IF InFatal(loopPc) THEN 1 ELSE 0)

\* C19: termbox.Close is called at most once, at most one goroutine is in
\* Fatal's sequence at a time, and none is while main runs its deferred
\* release after a quit request.
C19_OneRelease ==
    /\ closes <= 1
    /\ FatalRunners <= 1
    /\ FatalRunners > 0 => mainPc \notin {"close", "return"}

\* The string neither begins nor ends with white space.
Trimmed(n) == TrimSpace(Runes(n)) = Runes(n)

\* C20: a line of the listing gives the empty name exactly when it holds
\* nothing but white space; a goroutine started for such a line runs
\* no fetch; every name fetched is a trimmed, non-empty line; every store
\* entry is stored under its own Name, which is such a name; so a
\* goroutine about to replace an entry finds old.Name != "" exactly when
\* the store has an entry for its container.
C20_NamesAreKeys ==
    /\ \A r \in BlankLsResults :
          \A k \in 1..Len(Split(r.out)) :
              lxcListNames(r.out)[k] = ""
                  <=> \A j \in 1..Len(Split(r.out)[k]) :
                          IsSpace(Split(r.out)[k][j])
    /\ \A n \in DOMAIN store :
          n # "" /\ Trimmed(n) /\ store[n].Name = n
    /\ \A i \in DOMAIN tasks :
          /\ Trimmed(tasks[i].name)
          /\ tasks[i].name = "" => /\ tasks[i].pc \in {"go", "done"}
                                   /\ tasks[i].c = ZeroContainer
                                   /\ ~tasks[i].stopped
          /\ tasks[i].pc = "store"
                => (HasPrevious(tasks[i].old) <=> tasks[i].name \in DOMAIN store)

\* In the second cycle, whose listing has a line of one Ogham space mark,
\* the name a between an em space and an ideographic space, and a line of
\* a line separator, a next-line character and a vertical tab, the
\* goroutines of the two blank lines have returned and the one fetching a
\* has found the entry of the first cycle.
C20_Witness ==
    /\ cycles = 2 /\ Len(tasks) = 3
    /\ Cardinality({i \in DOMAIN tasks :
                       tasks[i].name = "" /\ tasks[i].pc = "done"}) = 2
    /\ \E j \in DOMAIN tasks :
          /\ tasks[j].name = "a" /\ tasks[j].pc = "store"
          /\ HasPrevious(tasks[j].old)
    /\ DOMAIN store = {"a"}
=============================================================================
